---- MODULE Spec2Model ----
(***************************************************************************)
(* Model of package database of SeaRoll/oapi-sqlc: the connection manager  *)
(* (NewDatabase, runReconnect, healthCheckPool, connectAndMigratePool,     *)
(* Disconnect) and the transaction coordinator (WithTX, WithReadTX,        *)
(* runTransactionWithOpts).                                                *)
(*                                                                         *)
(* Threads: "main" runs NewDatabase, "health" is the goroutine started by  *)
(* runReconnect, one task issues Disconnect calls, and one client task     *)
(* runs WithTX / WithReadTX calls, whose work units may nest further calls.*)
(* I/O against the backend (ping, pool creation, migration, begin, commit) *)
(* fails nondeterministically; the number of such failures in one          *)
(* behaviour is bounded by MaxFaults.                                      *)
(*                                                                         *)
(* dbo.pool is a plain field read and written by different goroutines      *)
(* without synchronisation; a racing read yields the old or the new        *)
(* pointer, which is the interleaving of the atomic steps below.           *)
(*                                                                         *)
(* Spec is the package used by any client; MainSpec is the package as      *)
(* main() uses it: requests reach PostApiV1Books while the server accepts  *)
(* connections, and Disconnect is the deferred call of main.               *)
(***************************************************************************)
EXTENDS Integers, Sequences, FiniteSets, TLC

\* ---- bounds of the model ----
MaxDepth == 2
MaxFaults == 2
MaxDisconnects == 1

\* one client task issues the WithTX / WithReadTX calls
Callers == {"client"}
Threads == {"main", "health"}

\* error values are chains of messages, innermost last; nil is the empty chain
Nil == <<>>

\* an error passed on without saying where it arose
Wrap_Bare(msg, e) == e

\* fmt.Errorf(msg + ": %w", e)
Wrap(msg, e) == <<msg>> \o e

\* executors: none supplied, one the coordinator did not create, or the one
\* bound to the transaction of the caller's outermost call (queries.WithTx(tx))
NoQ == "none"
ExtQ == "external"
TxQ == "tx"

\* a transaction: its state, the pool it was begun on, its access mode, the
\* operations invoked on the handle, the rows written in it (each with the
\* depth of the work unit that wrote it and that work unit's result so far),
\* and whether the backend has rejected a statement in it
NoTx ==
    [state |-> "none", pool |-> 0, ro |-> FALSE, log |-> <<>>, writes |-> {},
     failed |-> FALSE]

VARIABLES
    urlOk,       \* dbo.url parses
    pools,       \* every pgxpool.Pool ever created, "open" or "closed"
    dpool,       \* dbo.pool (0 is nil)
    isTeardown,  \* dbo.isTeardown
    pc,          \* position of the main thread and of the health goroutine
    newPool,     \* connectAndMigratePool's local variable pool, per thread
    faults,      \* backend failures so far
    pingFails,   \* consecutive failed health pings
    dpc,         \* position of the Disconnect call
    dtarget,     \* the pool Disconnect is closing
    dcount,      \* Disconnect calls so far
    stack,       \* per caller, the frames of runTransactionWithOpts in progress
    tx,          \* per caller, the pgx.Tx begun by its outermost call
    ctxDone,     \* per caller, the call's context is cancelled
    rows,        \* per caller, the rows its outermost call in progress committed
    app          \* position of main(), "none" when the package is used without it

vars == <<urlOk, pools, dpool, isTeardown, pc, newPool, faults, pingFails,
          dpc, dtarget, dcount, stack, tx, ctxDone, rows, app>>

connVars == <<urlOk, pools, dpool, isTeardown, pc, newPool, pingFails>>
discVars == <<dpc, dtarget, dcount>>
txVars == <<stack, tx, ctxDone, rows>>

PoolOpen(p) == p \in 1..Len(pools) /\ pools[p] = "open"
LivePools == {p \in 1..Len(pools) : pools[p] = "open"}
CanFault == faults < MaxFaults

\* the package before NewDatabase is called
InitDb ==
    /\ urlOk \in BOOLEAN
    /\ pools = <<>>
    /\ dpool = 0
    /\ isTeardown = FALSE
    /\ pc = [t \in Threads |-> IF t = "main" THEN "create" ELSE "off"]
    /\ newPool = [t \in Threads |-> 0]
    /\ faults = 0
    /\ pingFails = 0
    /\ dpc = "idle"
    /\ dtarget = 0
    /\ dcount = 0
    /\ stack = [c \in Callers |-> <<>>]
    /\ tx = [c \in Callers |-> NoTx]
    /\ ctxDone = [c \in Callers |-> FALSE]
    /\ rows = [c \in Callers |-> {}]

\* the package driven by any client
Init == InitDb /\ app = "none"

\* the package driven by main()
MainInit == InitDb /\ app = "init"

\* ---- connection manager ----

\* a health loop that gives up after a failed reconnect
ConnectReturn_GiveUp(t, ok) ==
    IF t = "main" THEN (IF ok THEN "start" ELSE "failed")
    ELSE (IF ok THEN "sleep" ELSE "done")

\* a constructor that only logs the error of the initial connect
ConnectReturn_LogOnly(t, ok) ==
    IF t = "main" THEN "start" ELSE "sleep"

\* where connectAndMigratePool returns to: NewDatabase panics on an error and
\* goes on to runReconnect otherwise; healthCheckPool only logs
ConnectReturn(t, ok) ==
    IF t = "main" THEN (IF ok THEN "start" ELSE "failed") ELSE "sleep"

\* ParseConfig and NewWithConfig: the new pool exists from here on
connectAndMigratePool_NewWithConfig(t) ==
    /\ pc[t] = "create"
    /\ \/ /\ urlOk
          /\ pools' = Append(pools, "open")
          /\ newPool' = [newPool EXCEPT ![t] = Len(pools) + 1]
          /\ pc' = [pc EXCEPT ![t] = "migrate"]
          /\ UNCHANGED faults
       \/ /\ ~urlOk
          /\ pc' = [pc EXCEPT ![t] = ConnectReturn(t, FALSE)]
          /\ UNCHANGED <<pools, newPool, faults>>
       \/ /\ urlOk
          /\ CanFault
          /\ faults' = faults + 1
          /\ pc' = [pc EXCEPT ![t] = ConnectReturn(t, FALSE)]
          /\ UNCHANGED <<pools, newPool>>
    /\ UNCHANGED <<urlOk, dpool, isTeardown, pingFails>>
    /\ UNCHANGED discVars
    /\ UNCHANGED app
    /\ UNCHANGED txVars

\* a connect step that installs the new pool before it migrates
connectAndMigratePool_migrate_InstallFirst(t) ==
    /\ pc[t] = "migrate"
    /\ dpool' = newPool[t]
    /\ \/ /\ pc' = [pc EXCEPT ![t] = ConnectReturn(t, TRUE)]
          /\ UNCHANGED faults
       \/ /\ CanFault
          /\ faults' = faults + 1
          /\ pc' = [pc EXCEPT ![t] = ConnectReturn(t, FALSE)]
    /\ newPool' = [newPool EXCEPT ![t] = 0]
    /\ UNCHANGED <<urlOk, pools, isTeardown, pingFails>>
    /\ UNCHANGED discVars
    /\ UNCHANGED app
    /\ UNCHANGED txVars

\* migrate, then d.pool = pool; a failed migration returns without closing
\* the pool it created
connectAndMigratePool_migrate(t) ==
    /\ pc[t] = "migrate"
    /\ \/ /\ dpool' = newPool[t]
          /\ pc' = [pc EXCEPT ![t] = ConnectReturn(t, TRUE)]
          /\ UNCHANGED faults
       \/ /\ CanFault
          /\ faults' = faults + 1
          /\ pc' = [pc EXCEPT ![t] = ConnectReturn(t, FALSE)]
          /\ UNCHANGED dpool
    /\ newPool' = [newPool EXCEPT ![t] = 0]
    /\ UNCHANGED <<urlOk, pools, isTeardown, pingFails>>
    /\ UNCHANGED discVars
    /\ UNCHANGED app
    /\ UNCHANGED txVars

NewDatabase_panic ==
    /\ pc["main"] = "failed"
    /\ pc' = [pc EXCEPT !["main"] = "panicked"]
    /\ UNCHANGED <<urlOk, pools, dpool, isTeardown, newPool, faults, pingFails>>
    /\ UNCHANGED discVars
    /\ UNCHANGED app
    /\ UNCHANGED txVars

\* d.runReconnect() starts the goroutine, then NewDatabase returns d
runReconnect ==
    /\ pc["main"] = "start"
    /\ pc' = [pc EXCEPT !["main"] = "ready", !["health"] = "check"]
    /\ UNCHANGED <<urlOk, pools, dpool, isTeardown, newPool, faults, pingFails>>
    /\ UNCHANGED discVars
    /\ UNCHANGED app
    /\ UNCHANGED txVars

\* a loop that never looks at the flag
TeardownCheck_Ignored(flag) == "ping"

\* if d.isTeardown.Load() { return }; d.healthCheckPool()
TeardownCheck(flag) == IF flag THEN "done" ELSE "ping"

\* top of the goroutine's loop
runReconnect_check ==
    /\ pc["health"] = "check"
    /\ pc' = [pc EXCEPT !["health"] = TeardownCheck(isTeardown)]
    /\ UNCHANGED <<urlOk, pools, dpool, isTeardown, newPool, faults, pingFails>>
    /\ UNCHANGED discVars
    /\ UNCHANGED app
    /\ UNCHANGED txVars

\* d.pool.Ping: fails on a closed pool or on a backend failure; a failure
\* leads into connectAndMigratePool
healthCheckPool_Ping ==
    /\ pc["health"] = "ping"
    /\ \/ /\ PoolOpen(dpool)
          /\ pc' = [pc EXCEPT !["health"] = "sleep"]
          /\ pingFails' = 0
          /\ UNCHANGED faults
       \/ /\ ~PoolOpen(dpool)
          /\ pc' = [pc EXCEPT !["health"] = "create"]
          /\ pingFails' = pingFails + 1
          /\ UNCHANGED faults
       \/ /\ PoolOpen(dpool)
          /\ CanFault
          /\ faults' = faults + 1
          /\ pc' = [pc EXCEPT !["health"] = "create"]
          /\ pingFails' = pingFails + 1
    /\ UNCHANGED <<urlOk, pools, dpool, isTeardown, newPool>>
    /\ UNCHANGED discVars
    /\ UNCHANGED app
    /\ UNCHANGED txVars

\* time.Sleep(5 * time.Second)
runReconnect_Sleep ==
    /\ pc["health"] = "sleep"
    /\ pc' = [pc EXCEPT !["health"] = "check"]
    /\ UNCHANGED <<urlOk, pools, dpool, isTeardown, newPool, faults, pingFails>>
    /\ UNCHANGED discVars
    /\ UNCHANGED app
    /\ UNCHANGED txVars

HealthLoop ==
    \/ runReconnect_check
    \/ healthCheckPool_Ping
    \/ connectAndMigratePool_NewWithConfig("health")
    \/ connectAndMigratePool_migrate("health")
    \/ runReconnect_Sleep

\* ---- Disconnect ----

\* a Disconnect that sets the flag whatever its argument
TeardownStore_Always(flag, noTeardown) == TRUE

\* if len(noTeardown) == 0 || !noTeardown[0] { d.isTeardown.Store(true) }
TeardownStore(flag, noTeardown) == flag \/ ~noTeardown

\* Disconnect is called by whoever holds the facade, a client of the package
\* or main(), which moves on as it calls
Disconnect(noTeardown) ==
    /\ pc["main"] = "ready"
    /\ dpc = "idle"
    /\ dcount < MaxDisconnects
    /\ dcount' = dcount + 1
    /\ isTeardown' = TeardownStore(isTeardown, noTeardown)
    /\ dpc' = "close"
    /\ UNCHANGED <<urlOk, pools, dpool, pc, newPool, faults, pingFails>>
    /\ UNCHANGED dtarget
    /\ UNCHANGED txVars

\* a Disconnect that clears the handle after closing the pool
AfterClose_Nil(p) == 0

\* the handle after d.pool.Close(): Disconnect leaves the field as it is
AfterClose(p) == p

\* d.pool.Close(): the pool rejects acquisitions from here on
Disconnect_Close ==
    /\ dpc = "close"
    /\ dtarget' = dpool
    /\ pools' = [pools EXCEPT ![dpool] = "closed"]
    /\ dpool' = AfterClose(dpool)
    /\ dpc' = "wait"
    /\ UNCHANGED <<urlOk, isTeardown, pc, newPool, faults, pingFails>>
    /\ UNCHANGED dcount
    /\ UNCHANGED app
    /\ UNCHANGED txVars

\* Close returns once every connection is back in the pool
Disconnect_return ==
    /\ dpc = "wait"
    /\ \A c \in Callers : ~(tx[c].state = "open" /\ tx[c].pool = dtarget)
    /\ dpc' = "idle"
    /\ dtarget' = 0
    /\ UNCHANGED connVars
    /\ UNCHANGED <<faults, dcount>>
    /\ UNCHANGED app
    /\ UNCHANGED txVars

\* ---- transaction coordinator ----

Depth(c) == Len(stack[c])
Top(c) == stack[c][Depth(c)]
SetTop(c, f) == [stack EXCEPT ![c][Depth(c)] = f]

\* Disconnect without suppression has been called and has returned
DisconnectReturned == isTeardown /\ dpc = "idle"

\* a coordinator that opens a transaction even when an executor is supplied
NewFrame_AlwaysBegin(ro, exQ) ==
    [pc |-> "begin", ro |-> ro, exQ |-> exQ, q |-> NoQ, qpool |-> dpool,
     fnCalls |-> 0, fnRes |-> "none", err |-> Nil, began |-> FALSE,
     begins |-> 0, late |-> DisconnectReturned]

\* the frame of a call: with a supplied executor the work unit starts at once
\* (return fn(existingQ[0])), otherwise queries := New(d.pool) reads d.pool;
\* late records that the call was made after Disconnect had returned
NewFrame(ro, exQ) ==
    IF exQ # NoQ
      THEN [pc |-> "fn", ro |-> ro, exQ |-> exQ, q |-> exQ, qpool |-> 0,
            fnCalls |-> 1, fnRes |-> "none", err |-> Nil, began |-> FALSE,
            begins |-> 0, late |-> DisconnectReturned]
      ELSE [pc |-> "begin", ro |-> ro, exQ |-> exQ, q |-> NoQ, qpool |-> dpool,
            fnCalls |-> 0, fnRes |-> "none", err |-> Nil, began |-> FALSE,
     begins |-> 0, late |-> DisconnectReturned]

\* a call of runTransactionWithOpts: by a caller at top level, or by the work
\* unit of the frame in progress, which passes on the executor it was given
runTransactionWithOpts(c, ro, exQ) ==
    /\ pc["main"] = "ready"
    /\ Depth(c) < MaxDepth
    /\ IF Depth(c) = 0
          THEN exQ \in {NoQ, ExtQ}
          ELSE Top(c).pc = "fn" /\ exQ = Top(c).q
    /\ stack' = [stack EXCEPT ![c] = Append(@, NewFrame(ro, exQ))]
    /\ tx' = [tx EXCEPT ![c] = IF exQ = NoQ THEN NoTx ELSE @]
    /\ UNCHANGED connVars
    /\ UNCHANGED faults
    /\ UNCHANGED discVars
    /\ UNCHANGED app
    /\ UNCHANGED <<ctxDone, rows>>

WithTX(c, exQ) == runTransactionWithOpts(c, FALSE, exQ)

WithReadTX(c, exQ) == runTransactionWithOpts(c, TRUE, exQ)

\* the caller's context is cancelled while the call is in progress
CancelCtx(c) ==
    /\ Depth(c) > 0
    /\ ~ctxDone[c]
    /\ ctxDone' = [ctxDone EXCEPT ![c] = TRUE]
    /\ UNCHANGED connVars
    /\ UNCHANGED faults
    /\ UNCHANGED discVars
    /\ UNCHANGED app
    /\ UNCHANGED <<stack, tx, rows>>

\* a coordinator that registers the rollback before it looks at the error
BeginFailed_ToDefer(c, e) ==
    stack' = SetTop(c, [Top(c) EXCEPT !.pc = "defer", !.qpool = 0,
                           !.begins = @ + 1,
                           !.err = Wrap("failed to begin transaction", e)])

\* if err != nil { return fmt.Errorf("failed to begin transaction: %w", err) }
BeginFailed(c, e) ==
    stack' = SetTop(c, [Top(c) EXCEPT !.pc = "ret", !.qpool = 0,
                           !.begins = @ + 1,
                           !.err = Wrap("failed to begin transaction", e)])

\* a BeginTx that drops the options and begins a read-write transaction
NewTx_IgnoresOpts(p, ro) ==
    [state |-> "open", pool |-> p, ro |-> FALSE, log |-> <<>>, writes |-> {},
     failed |-> FALSE]

\* the transaction d.pool.BeginTx(ctx, opts) returns on pool p
NewTx(p, ro) ==
    [state |-> "open", pool |-> p, ro |-> ro, log |-> <<>>, writes |-> {},
     failed |-> FALSE]

\* tx, err := d.pool.BeginTx(ctx, opts); on success the rollback is deferred
\* and fn(queries.WithTx(tx)) starts
rt_BeginTx(c) ==
    /\ Depth(c) > 0
    /\ Top(c).pc = "begin"
    /\ \/ /\ PoolOpen(dpool)
          /\ ~ctxDone[c]
          /\ tx' = [tx EXCEPT ![c] = NewTx(dpool, Top(c).ro)]
          /\ stack' = SetTop(c, [Top(c) EXCEPT !.pc = "fn", !.began = TRUE,
                                               !.q = TxQ, !.qpool = 0,
                                               !.begins = @ + 1,
                                               !.fnCalls = @ + 1])
          /\ UNCHANGED faults
       \/ /\ ~PoolOpen(dpool)
          /\ BeginFailed(c, <<"closed pool">>)
          /\ UNCHANGED <<tx, faults>>
       \/ /\ PoolOpen(dpool)
          /\ ctxDone[c]
          /\ BeginFailed(c, <<"context canceled">>)
          /\ UNCHANGED <<tx, faults>>
       \/ /\ PoolOpen(dpool)
          /\ ~ctxDone[c]
          /\ CanFault
          /\ faults' = faults + 1
          /\ BeginFailed(c, <<"connection failed">>)
          /\ UNCHANGED tx
    /\ UNCHANGED connVars
    /\ UNCHANGED discVars
    /\ UNCHANGED app
    /\ UNCHANGED <<ctxDone, rows>>

\* a coordinator that forgets to commit
AfterFn_NoCommit(f, r) ==
    IF f.exQ # NoQ
      THEN [f EXCEPT !.pc = "ret", !.err = r,
               !.fnRes = IF r = Nil THEN "ok" ELSE "err"]
      ELSE IF r # Nil
        THEN [f EXCEPT !.pc = "defer", !.fnRes = "err",
                 !.err = Wrap("failed to execute function", r)]
        ELSE [f EXCEPT !.pc = "defer", !.fnRes = "ok"]

\* a coordinator that commits whatever the work unit returned
AfterFn_CommitOnError(f, r) ==
    IF f.exQ # NoQ
      THEN [f EXCEPT !.pc = "ret", !.err = r,
               !.fnRes = IF r = Nil THEN "ok" ELSE "err"]
      ELSE [f EXCEPT !.pc = "commit", !.fnRes = IF r = Nil THEN "ok" ELSE "err"]

\* a coordinator that rolls back by hand on the commit path only, so that a
\* failing work unit returns with the transaction still open
AfterFn_NoDefer(f, r) ==
    IF f.exQ # NoQ
      THEN [f EXCEPT !.pc = "ret", !.err = r,
               !.fnRes = IF r = Nil THEN "ok" ELSE "err"]
      ELSE IF r # Nil
        THEN [f EXCEPT !.pc = "ret", !.fnRes = "err",
                 !.err = Wrap("failed to execute function", r)]
        ELSE [f EXCEPT !.pc = "commit", !.fnRes = "ok"]

\* the frame after the work unit returned r: with a supplied executor r is
\* the call's result; otherwise an error is wrapped and leaves through the
\* deferred rollback, and nil goes on to Commit
AfterFn(f, r) ==
    IF f.exQ # NoQ
      THEN [f EXCEPT !.pc = "ret", !.err = r,
               !.fnRes = IF r = Nil THEN "ok" ELSE "err"]
      ELSE IF r # Nil
        THEN [f EXCEPT !.pc = "defer", !.fnRes = "err",
                 !.err = Wrap("failed to execute function", r)]
        ELSE [f EXCEPT !.pc = "commit", !.fnRes = "ok"]

\* the rows of a transaction once the work unit at depth d has returned r:
\* the row it wrote is marked with what it returned
Returned(ws, d, r) ==
    {IF w = <<d, "run">> THEN <<d, IF r = Nil THEN "ok" ELSE "err">> ELSE w :
        w \in ws}

\* a commit with savepoint semantics: the rows of failed work units are dropped
Committed_OkOnly(ws) == {w \in ws : w[2] # "err"}

\* what tx.Commit makes visible: every row written in the transaction
Committed(ws) == ws

\* the work unit writes a row through its executor (q.CreateBook), once per
\* work unit: a read-write transaction takes the row, a read-only one rejects
\* the statement and is failed from then on
fn_Write(c) ==
    /\ Depth(c) > 0
    /\ Top(c).pc = "fn"
    /\ Top(c).q = TxQ
    /\ tx[c].state = "open"
    /\ ~tx[c].failed
    /\ \A w \in tx[c].writes : w[1] # Depth(c)
    /\ tx' = [tx EXCEPT ![c] =
                 IF @.ro THEN [@ EXCEPT !.failed = TRUE]
                 ELSE [@ EXCEPT !.writes = @ \cup {<<Depth(c), "run">>}]]
    /\ UNCHANGED connVars
    /\ UNCHANGED faults
    /\ UNCHANGED discVars
    /\ UNCHANGED app
    /\ UNCHANGED <<stack, ctxDone, rows>>

\* the work unit returns nil or an error
rt_fn_return(c) ==
    /\ Depth(c) > 0
    /\ Top(c).pc = "fn"
    /\ \E r \in {Nil, <<"work unit failed">>} :
          /\ stack' = SetTop(c, AfterFn(Top(c), r))
          /\ tx' = [tx EXCEPT ![c].writes = Returned(@, Depth(c), r)]
    /\ UNCHANGED connVars
    /\ UNCHANGED faults
    /\ UNCHANGED discVars
    /\ UNCHANGED app
    /\ UNCHANGED <<ctxDone, rows>>

\* err = tx.Commit(ctx): the transaction is closed afterwards whether or not
\* the commit went through
rt_Commit(c) ==
    /\ Depth(c) > 0
    /\ Top(c).pc = "commit"
    /\ \/ /\ ~ctxDone[c]
          /\ ~tx[c].failed
          /\ tx' = [tx EXCEPT ![c].state = "committed",
                              ![c].log = Append(@, "Commit")]
          /\ rows' = [rows EXCEPT ![c] = Committed(tx[c].writes)]
          /\ stack' = SetTop(c, [Top(c) EXCEPT !.pc = "defer"])
          /\ UNCHANGED faults
       \/ /\ ctxDone[c]
          /\ tx' = [tx EXCEPT ![c].state = "aborted",
                              ![c].log = Append(@, "Commit")]
          /\ stack' = SetTop(c, [Top(c) EXCEPT !.pc = "defer",
                 !.err = Wrap("failed to commit transaction",
                              <<"context canceled">>)])
          /\ UNCHANGED <<faults, rows>>
       \/ /\ ~ctxDone[c]
          /\ tx[c].failed
          /\ tx' = [tx EXCEPT ![c].state = "aborted",
                              ![c].log = Append(@, "Commit")]
          /\ stack' = SetTop(c, [Top(c) EXCEPT !.pc = "defer",
                 !.err = Wrap("failed to commit transaction",
                              <<"commit unexpectedly resulted in rollback">>)])
          /\ UNCHANGED <<faults, rows>>
       \/ /\ ~ctxDone[c]
          /\ ~tx[c].failed
          /\ CanFault
          /\ faults' = faults + 1
          /\ tx' = [tx EXCEPT ![c].state = "aborted",
                              ![c].log = Append(@, "Commit")]
          /\ stack' = SetTop(c, [Top(c) EXCEPT !.pc = "defer",
                 !.err = Wrap("failed to commit transaction",
                              <<"connection failed">>)])
          /\ UNCHANGED rows
    /\ UNCHANGED connVars
    /\ UNCHANGED discVars
    /\ UNCHANGED app
    /\ UNCHANGED ctxDone

\* tx.Rollback on a transaction in state st: one that is already closed is
\* left as it is, an open one is closed even when the context is cancelled
RollbackState(st) == IF st = "open" THEN "rolledback" ELSE st

\* defer func() { _ = tx.Rollback(ctx) }()
rt_Rollback(c) ==
    /\ Depth(c) > 0
    /\ Top(c).pc = "defer"
    /\ tx' = [tx EXCEPT ![c].state = RollbackState(@),
                        ![c].log = Append(@, "Rollback")]
    /\ stack' = SetTop(c, [Top(c) EXCEPT !.pc = "ret"])
    /\ UNCHANGED connVars
    /\ UNCHANGED faults
    /\ UNCHANGED discVars
    /\ UNCHANGED app
    /\ UNCHANGED <<ctxDone, rows>>

\* the call returns err to its caller; its context and its transaction
\* handle go out of scope (an open transaction keeps its connection), and
\* the rows of the next outermost call are new ones
rt_return(c) ==
    /\ Depth(c) > 0
    /\ Top(c).pc = "ret"
    /\ stack' = [stack EXCEPT ![c] = SubSeq(@, 1, Depth(c) - 1)]
    /\ tx' = [tx EXCEPT ![c] = IF Depth(c) > 1 \/ @.state = "open"
                                  THEN @ ELSE NoTx]
    /\ ctxDone' = [ctxDone EXCEPT ![c] = IF Depth(c) = 1 THEN FALSE ELSE @]
    /\ rows' = [rows EXCEPT ![c] = IF Depth(c) = 1 THEN {} ELSE @]
    /\ UNCHANGED connVars
    /\ UNCHANGED faults
    /\ UNCHANGED discVars
    /\ UNCHANGED app

Next ==
    \/ \E t \in Threads : connectAndMigratePool_NewWithConfig(t)
    \/ \E t \in Threads : connectAndMigratePool_migrate(t)
    \/ NewDatabase_panic
    \/ runReconnect
    \/ runReconnect_check
    \/ healthCheckPool_Ping
    \/ runReconnect_Sleep
    \/ \E s \in BOOLEAN : Disconnect(s) /\ UNCHANGED app
    \/ Disconnect_Close
    \/ Disconnect_return
    \/ \E c \in Callers, q \in {NoQ, ExtQ, TxQ} : WithTX(c, q)
    \/ \E c \in Callers, q \in {NoQ, ExtQ, TxQ} : WithReadTX(c, q)
    \/ \E c \in Callers : CancelCtx(c)
    \/ \E c \in Callers : rt_BeginTx(c)
    \/ \E c \in Callers : fn_Write(c)
    \/ \E c \in Callers : rt_fn_return(c)
    \/ \E c \in Callers : rt_Commit(c)
    \/ \E c \in Callers : rt_Rollback(c)
    \/ \E c \in Callers : rt_return(c)

Spec == Init /\ [][Next]_vars

\* the Go scheduler runs the health goroutine, and ping, pool creation and
\* migration return within their timeouts
FairSpec == Spec /\ WF_vars(HealthLoop)

\* ---- main() ----

\* the process is alive: it has not exited through log.Fatal or by returning
\* from main, and NewDatabase has not panicked
Running == app \notin {"fatal", "exited"} /\ pc["main"] # "panicked"

\* db := NewDatabase(...) returned; defer db.Disconnect() is registered and
\* the server goroutine is started
main_Serve ==
    /\ app = "init"
    /\ pc["main"] = "ready"
    /\ app' = "serving"
    /\ UNCHANGED connVars
    /\ UNCHANGED faults
    /\ UNCHANGED discVars
    /\ UNCHANGED txVars

\* ListenAndServe returns an error other than ErrServerClosed: log.Fatal
\* exits the process and no deferred call runs
main_ListenFatal ==
    /\ app = "serving"
    /\ app' = "fatal"
    /\ UNCHANGED connVars
    /\ UNCHANGED faults
    /\ UNCHANGED discVars
    /\ UNCHANGED txVars

\* <-ctx.Done(): the signal arrives and main calls srv.Shutdown(shutdownCtx)
main_Signal ==
    /\ app = "serving"
    /\ app' = "Shutdown"
    /\ UNCHANGED connVars
    /\ UNCHANGED faults
    /\ UNCHANGED discVars
    /\ UNCHANGED txVars

\* srv.Shutdown returns: every request has finished, or the 15 seconds of
\* shutdownCtx are over with requests still running
main_ShutdownReturn ==
    /\ app = "Shutdown"
    /\ \E expired \in BOOLEAN :
          expired \/ \A c \in Callers : Depth(c) = 0
    /\ app' = "deferred"
    /\ UNCHANGED connVars
    /\ UNCHANGED faults
    /\ UNCHANGED discVars
    /\ UNCHANGED txVars

\* a main that disconnects as soon as the signal arrives, while srv.Shutdown
\* is still waiting
main_Disconnect_Early ==
    /\ app = "Shutdown"
    /\ Disconnect(FALSE)
    /\ app' = "closing"

\* main returns and its deferred calls run: db.Disconnect()
main_Disconnect ==
    /\ app = "deferred"
    /\ Disconnect(FALSE)
    /\ app' = "closing"

\* Disconnect has returned and the process exits
main_exit ==
    /\ app = "closing"
    /\ dpc = "idle"
    /\ app' = "exited"
    /\ UNCHANGED connVars
    /\ UNCHANGED faults
    /\ UNCHANGED discVars
    /\ UNCHANGED txVars

\* a request reaches PostApiV1Books while the server accepts connections;
\* the handler calls WithTX without an existing executor
PostApiV1Books(c) ==
    /\ app = "serving"
    /\ Depth(c) = 0
    /\ WithTX(c, NoQ)

MainNext ==
    \/ Running /\ \E t \in Threads : connectAndMigratePool_NewWithConfig(t)
    \/ Running /\ \E t \in Threads : connectAndMigratePool_migrate(t)
    \/ NewDatabase_panic
    \/ Running /\ runReconnect
    \/ Running /\ runReconnect_check
    \/ Running /\ healthCheckPool_Ping
    \/ Running /\ runReconnect_Sleep
    \/ main_Serve
    \/ main_ListenFatal
    \/ main_Signal
    \/ main_ShutdownReturn
    \/ main_Disconnect
    \/ Running /\ Disconnect_Close
    \/ Running /\ Disconnect_return
    \/ main_exit
    \/ \E c \in Callers : PostApiV1Books(c)
    \/ Running /\ \E c \in Callers : CancelCtx(c)
    \/ Running /\ \E c \in Callers : rt_BeginTx(c)
    \/ Running /\ \E c \in Callers : fn_Write(c)
    \/ Running /\ \E c \in Callers : rt_fn_return(c)
    \/ Running /\ \E c \in Callers : rt_Commit(c)
    \/ Running /\ \E c \in Callers : rt_Rollback(c)
    \/ Running /\ \E c \in Callers : rt_return(c)

MainSpec == MainInit /\ [][MainNext]_vars

\* ---- properties ----

\* the frame of caller c's call that is about to return, when there is one
Returning(c) == Depth(c) > 0 /\ Top(c).pc = "ret"

\* caller c's call opened its own transaction, its work unit returned res,
\* and the call is about to return
OwnTxReturning(c, res) ==
    /\ Returning(c)
    /\ Top(c).exQ = NoQ
    /\ Top(c).began
    /\ Top(c).fnRes = res

HealthPc == pc["health"]

\* C1 as stated: when begin succeeded and the work unit returned nil, Commit
\* is the only operation ever invoked on the transaction (one Commit, and no
\* Rollback after it).
C1_NoRollbackCallAfterCommit ==
    \A c \in Callers : OwnTxReturning(c, "ok") => tx[c].log = <<"Commit">>

\* C1 amended: when begin succeeded and the work unit returned nil, Commit is
\* attempted exactly once; the deferred Rollback is invoked once after it,
\* finds the transaction closed and changes nothing, so the transaction is
\* never rolled back after the Commit.
C1_CommitOnceRollbackNoOp ==
    \A c \in Callers :
        OwnTxReturning(c, "ok") =>
            /\ tx[c].log = <<"Commit", "Rollback">>
            /\ tx[c].state \in {"committed", "aborted"}
            /\ (tx[c].state = "committed") <=> (Top(c).err = Nil)

C1_Witness ==
    \E c \in Callers : OwnTxReturning(c, "ok") /\ tx[c].state = "committed"

\* C2: when begin succeeded and the work unit returned an error, Commit is
\* never attempted, and at return Rollback has been invoked exactly once, the
\* transaction is rolled back and the call's result is a non-nil error.
C2_ErrorRollsBackOnce ==
    \A c \in Callers :
        /\ (Depth(c) > 0 /\ stack[c][1].exQ = NoQ /\ stack[c][1].fnRes = "err")
              => tx[c].log \in {<<>>, <<"Rollback">>}
        /\ OwnTxReturning(c, "err") =>
              /\ tx[c].log = <<"Rollback">>
              /\ tx[c].state = "rolledback"
              /\ Top(c).err # Nil

C2_Witness ==
    \E c \in Callers : OwnTxReturning(c, "err") /\ tx[c].state = "rolledback"

\* C3: a call given an existing executor begins no transaction and invokes
\* neither Commit nor Rollback; it runs the work unit once with that executor
\* and returns the work unit's result unchanged.
C3_ExistingExecutorReused ==
    \A c \in Callers : \A d \in 1..Depth(c) :
        LET f == stack[c][d] IN
        f.exQ # NoQ =>
            /\ ~f.began
            /\ f.qpool = 0
            /\ f.q = f.exQ
            /\ f.fnCalls = 1
            /\ tx[c].log = <<>>
            /\ tx[c].state = (IF f.exQ = TxQ THEN "open" ELSE "none")
            /\ f.pc = "ret" =>
                  f.err = (IF f.fnRes = "ok" THEN Nil ELSE <<"work unit failed">>)

C3_Witness ==
    \E c \in Callers :
        /\ Returning(c)
        /\ Depth(c) = 2
        /\ Top(c).exQ = TxQ
        /\ Top(c).fnRes = "err"

\* C4: a transaction opened by a call is closed before the call returns: in
\* every state where the caller has no call in progress, or its outermost
\* call is about to return, its transaction is not open.
C4_TxClosedAtReturn ==
    \A c \in Callers :
        (Depth(c) = 0 \/ stack[c][1].pc = "ret") => tx[c].state # "open"

C4_Witness ==
    \E c \in Callers :
        /\ Returning(c)
        /\ Depth(c) = 1
        /\ Top(c).began
        /\ ctxDone[c]
        /\ tx[c].state \in {"aborted", "rolledback"}

\* C5 as stated: once a Disconnect without suppression has returned, the
\* health loop performs no ping.
C5_NoPingAfterDisconnect ==
    [][(DisconnectReturned /\ HealthPc = "ping") => HealthPc' = "ping"]_vars

\* C6: once the teardown flag is set, the health loop starts no further
\* iteration (no ping begins with the flag set) and eventually terminates.
C6_LoopStopsOnTeardown ==
    /\ [][(HealthPc' = "ping" /\ HealthPc # "ping") => ~isTeardown]_vars
    /\ isTeardown ~> (HealthPc = "done")

C6_Witness == isTeardown /\ HealthPc = "done"

\* C7 as stated: at most one pool created by the connection manager is live.
C7_AtMostOneLivePool == Cardinality(LivePools) <= 1

\* C8 as stated: once a Disconnect without suppression has returned, the flag
\* stays set and no pool is created or installed.
C8_TornDownTerminal ==
    [][DisconnectReturned =>
          (isTeardown' /\ Len(pools') = Len(pools) /\ dpool' = dpool)]_vars

\* C9: Disconnect(true) leaves the teardown flag and the health loop as they
\* are and closes the current pool; the loop stops only on the flag; and an
\* instance whose pool was closed without teardown gets, from the loop and
\* with the backend answering, a new open pool (unless it is torn down).
C9_SuppressedDisconnectRecovers ==
    /\ [][Disconnect(TRUE) => (isTeardown' = isTeardown /\ pc' = pc)]_vars
    /\ [][(dpc = "close" /\ dpc' = "wait") => ~PoolOpen(dpool)']_vars
    /\ [](HealthPc = "done" => isTeardown)
    /\ (pc["main"] = "ready" /\ ~isTeardown /\ ~PoolOpen(dpool))
          ~> (isTeardown \/ PoolOpen(dpool))

C9_Witness ==
    /\ ~isTeardown
    /\ dcount > 0
    /\ pools[1] = "closed"
    /\ \E c \in Callers :
          /\ Returning(c)
          /\ Top(c).began
          /\ Top(c).err = Nil
          /\ tx[c].pool = dpool
          /\ dpool > 1

\* C10: a failed ping always leads to a reconnect attempt, a failed
\* reconnect never ends the loop (it ends on the teardown flag only) and is
\* followed by the next check, and a successful check or reconnect leaves an
\* open pool installed.
C10_LoopRetriesUntilSuccess ==
    /\ [][(HealthPc' = "done" /\ HealthPc # "done")
             => (HealthPc = "check" /\ isTeardown)]_vars
    /\ [][(HealthPc = "ping" /\ ~PoolOpen(dpool) /\ HealthPc' # "ping")
             => HealthPc' = "create"]_vars
    /\ [][((HealthPc = "ping" /\ HealthPc' = "sleep")
              \/ (HealthPc = "migrate" /\ dpool' # dpool))
             => (PoolOpen(dpool))']_vars
    /\ (HealthPc = "create") ~> (HealthPc = "check")

C10_Witness ==
    /\ pingFails = 3
    /\ HealthPc = "sleep"
    /\ PoolOpen(dpool)
    /\ \E c \in Callers :
          /\ Returning(c)
          /\ Top(c).began
          /\ Top(c).err = Nil
          /\ tx[c].pool = dpool

\* the messages by which runTransactionWithOpts names the phase that failed
Phases ==
    {"failed to begin transaction", "failed to execute function",
     "failed to commit transaction"}

\* the phase in which the call of frame f failed
FailedPhase(f) ==
    IF ~f.began THEN "failed to begin transaction"
    ELSE IF f.fnRes = "err" THEN "failed to execute function"
    ELSE "failed to commit transaction"

\* no phase of frame f of caller c was attempted more than once
NoRetry(c, f) ==
    /\ f.begins <= 1
    /\ f.fnCalls <= 1
    /\ Len(SelectSeq(tx[c].log, LAMBDA o : o = "Commit")) <= 1

\* C11 as stated: every error a call returns, with or without an existing
\* executor, starts with the message of the phase that failed, and no phase
\* is attempted twice.
C11_EveryErrorWrapped ==
    \A c \in Callers :
        (Returning(c) /\ Top(c).err # Nil) =>
            (Head(Top(c).err) \in Phases /\ NoRetry(c, Top(c)))

\* C11 amended: an error returned by a call that opens its own transaction
\* starts with the message of the phase that failed (begin, execute
\* function, commit); with an existing executor the work unit's error is
\* returned as it is, without a phase; and no phase is attempted twice.
C11_OwnTxErrorsWrapped ==
    \A c \in Callers : \A d \in 1..Depth(c) :
        LET f == stack[c][d] IN
        /\ NoRetry(c, f)
        /\ (f.pc = "ret" /\ f.err # Nil) =>
              IF f.exQ = NoQ
                THEN /\ Head(f.err) = FailedPhase(f)
                     /\ Len(f.err) = 2
                ELSE f.err = <<"work unit failed">>

C11_Witness ==
    \E c \in Callers :
        /\ Returning(c)
        /\ Top(c).exQ = NoQ
        /\ Top(c).began
        /\ Top(c).fnRes = "ok"
        /\ Top(c).err = <<"failed to commit transaction", "connection failed">>
\* caller c's outermost call, which owns its transaction, is about to return
OwnerReturning(c) == Returning(c) /\ Depth(c) = 1 /\ Top(c).exQ = NoQ

WriteStep(c) ==
    /\ Depth(c) > 0
    /\ Top(c).pc = "fn"
    /\ stack' = stack
    /\ tx'[c] # tx[c]

\* the write of this step is rejected by the backend
Rejected(c) == tx'[c].failed /\ tx'[c].writes = tx[c].writes

\* C13 as stated: a write performed by the work unit of a WithReadTX call is
\* rejected and one performed by the work unit of a WithTX call is
\* permitted, whether or not the call was given an existing executor.
C13_WriteFollowsMethod ==
    [][\A c \in Callers : WriteStep(c) => (Rejected(c) <=> Top(c).ro)]_vars

\* C13 amended: an open transaction has the access mode of the call that
\* began it (read-only for WithReadTX, read-write for WithTX), and a write is
\* rejected exactly when the transaction its executor is bound to is
\* read-only. A call given an existing executor does not apply its own mode:
\* its writes follow the mode of the call that owns the transaction.
C13_WriteFollowsOwningTx ==
    /\ [](\A c \in Callers :
            tx[c].state = "open" =>
                /\ Depth(c) > 0
                /\ stack[c][1].exQ = NoQ
                /\ tx[c].ro = stack[c][1].ro)
    /\ [][\A c \in Callers :
            WriteStep(c) => (Rejected(c) <=> stack[c][1].ro)]_vars

\* the work unit of a WithReadTX call given the executor of a read-write
\* transaction has written a row
C13_Witness ==
    \E c \in Callers :
        /\ Depth(c) = 2
        /\ Top(c).ro
        /\ Top(c).exQ = TxQ
        /\ ~stack[c][1].ro
        /\ <<2, "run">> \in tx[c].writes

\* caller c's call begins its transaction in this step
BeginStep(c) ==
    /\ Depth(c) > 0
    /\ Top(c).pc = "begin"
    /\ tx'[c].state = "open"

\* C14: a call uses one pool for the whole call: the pool its transaction is
\* begun on is the pool its query executor was bound to, whatever reconnects
\* happen while the call runs.
C14_ExecutorAndTxOnSamePool ==
    [][\A c \in Callers : BeginStep(c) => tx'[c].pool = Top(c).qpool]_vars

\* C15: a call made without an existing executor after Disconnect without
\* suppression has returned never gets a transaction: it fails at begin,
\* whatever the health loop does in between.
C15_NoBeginAfterDisconnect ==
    \A c \in Callers :
        (Depth(c) > 0 /\ Top(c).late /\ Top(c).exQ = NoQ) => ~Top(c).began

\* nothing has been done with the facade: no call, no Disconnect
FacadeUnused ==
    /\ \A c \in Callers : Depth(c) = 0
    /\ dpc = "idle"
    /\ dcount = 0

\* C16: when the initial connect-and-migrate fails, NewDatabase panics with
\* no pool installed, no health loop started and no facade for anyone to
\* use; when it succeeds the health loop is started once, by NewDatabase,
\* after the pool handle was installed, and runs by the time the facade is
\* returned.
C16_FailFastConstruction ==
    /\ [](pc["main"] \in {"failed", "panicked"} =>
            /\ HealthPc = "off"
            /\ dpool = 0
            /\ FacadeUnused)
    /\ [](pc["main"] = "ready" <=> HealthPc # "off")
    /\ [](HealthPc # "off" => dpool # 0)
    /\ [][pc["main"] = "failed" => pc'["main"] = "panicked"]_vars
    /\ [][pc["main"] = "panicked" => pc' = pc]_vars
    /\ [][HealthPc # HealthPc' /\ HealthPc = "off" =>
            /\ pc["main"] = "start"
            /\ PoolOpen(dpool)
            /\ dpool' = dpool]_vars
    /\ [][HealthPc # "off" => HealthPc' # "off"]_vars

\* NewDatabase has panicked after a migration failure on the pool it created
C16_Witness ==
    /\ pc["main"] = "panicked"
    /\ Len(pools) = 1
    /\ dpool = 0

\* thread t is inside connectAndMigratePool
Connecting(t) == pc[t] \in {"create", "migrate"}

\* C17: the pool handle is replaced only by the assignment at the end of
\* connectAndMigratePool, with the pool that call created; a step of
\* Disconnect or of a transaction call never changes it; and NewDatabase
\* and the health loop are never inside connectAndMigratePool at the same
\* time.
C17_SingleWriter ==
    /\ [][dpool' # dpool =>
            /\ \E t \in Threads :
                  /\ pc[t] = "migrate"
                  /\ pc'[t] # pc[t]
                  /\ dpool' = newPool[t]
            /\ UNCHANGED discVars
            /\ UNCHANGED txVars]_vars
    /\ [](~(Connecting("main") /\ Connecting("health")))

\* the health loop has replaced the handle while Disconnect was closing the
\* old pool and a call was in progress
C17_Witness ==
    /\ dpool = 2
    /\ dpc = "wait"
    /\ dtarget = 1
    /\ \E c \in Callers : Depth(c) > 0

\* no pool has been closed
NoPoolClosed == \A p \in 1..Len(pools) : pools[p] # "closed"

\* C18: in main(), Disconnect starts only once srv.Shutdown has returned,
\* whether the requests finished or the grace window expired, and it is the
\* unsuppressed one; no pool is closed before that; Disconnect is never
\* executed twice, and by the time main has returned it has been executed
\* once and has returned.
C18_DisconnectAfterShutdown ==
    /\ [][dcount' # dcount =>
            /\ app = "deferred"
            /\ app' = "closing"
            /\ isTeardown']_vars
    /\ [](app \in {"init", "serving", "Shutdown", "deferred", "fatal"} =>
            dcount = 0 /\ NoPoolClosed /\ ~isTeardown)
    /\ [](app \in {"closing", "exited"} => dcount = 1 /\ isTeardown)
    /\ [](app = "exited" => DisconnectReturned)

\* main has returned after a shutdown whose grace window expired: the pool is
\* closed and a request is still in its handler
C18_Witness ==
    /\ app = "exited"
    /\ dcount = 1
    /\ ~NoPoolClosed
    /\ \E c \in Callers : Depth(c) > 0

\* caller c's call, made without an existing executor, is about to return
\* without having got a transaction
BeginFailedReturning(c) ==
    /\ Returning(c)
    /\ Top(c).exQ = NoQ
    /\ ~Top(c).began

\* C19: a call whose BeginTx failed returns the begin error after that one
\* attempt, without having invoked its work unit and without any Commit or
\* Rollback: there is no transaction to invoke them on, and nothing is
\* written or committed.
C19_BeginFailureReturnsAtOnce ==
    \A c \in Callers :
        BeginFailedReturning(c) =>
            /\ Top(c).err # Nil
            /\ Head(Top(c).err) = "failed to begin transaction"
            /\ Top(c).begins = 1
            /\ Top(c).fnCalls = 0
            /\ Top(c).fnRes = "none"
            /\ tx[c] = NoTx
            /\ rows[c] = {}

\* a call is about to return the begin error of a closed pool
C19_Witness ==
    \E c \in Callers :
        /\ BeginFailedReturning(c)
        /\ Top(c).err = <<"failed to begin transaction", "closed pool">>

\* the health goroutine takes this step
HealthStep == HealthPc' # HealthPc

\* C20: within one iteration of the health loop, a ping that succeeds goes
\* straight to the sleep and touches neither the handle nor the pools; a
\* ping that fails enters connectAndMigratePool, which is entered from
\* nowhere else and left only towards the sleep, so once per iteration; and
\* the handle changes only at the end of a reconnect whose pool creation and
\* migration both succeeded, to the pool that reconnect created. A reconnect
\* that fails leaves the handle as it was.
C20_HealthIterationFrame ==
    /\ [][HealthStep /\ HealthPc = "ping" =>
            /\ HealthPc' \in {"sleep", "create"}
            /\ HealthPc' = "sleep" => PoolOpen(dpool) /\ faults' = faults
            /\ HealthPc' = "create" => pingFails' = pingFails + 1
            /\ UNCHANGED <<dpool, pools, newPool>>]_vars
    /\ [][HealthStep /\ HealthPc' = "create" => HealthPc = "ping"]_vars
    /\ [][HealthStep /\ HealthPc = "create" =>
            /\ HealthPc' \in {"migrate", "sleep"}
            /\ HealthPc' = "migrate" <=> Len(pools') = Len(pools) + 1
            /\ dpool' = dpool]_vars
    /\ [][HealthStep /\ HealthPc = "migrate" =>
            /\ HealthPc' = "sleep"
            /\ pools' = pools
            /\ dpool' = IF faults' = faults THEN newPool["health"] ELSE dpool]_vars
    /\ [][HealthStep /\ HealthPc \notin {"ping", "create", "migrate"} =>
            UNCHANGED <<dpool, pools, newPool>>]_vars

\* the health loop sleeps after a reconnect whose migration failed: the new
\* pool exists and the handle is still the first pool
C20_Witness ==
    /\ HealthPc = "sleep"
    /\ pingFails > 0
    /\ Len(pools) = 2
    /\ dpool = 1
====
